---- MODULE Spec2Model ----
(***************************************************************************)
(* A model of LightJSON (json.hpp): the tagged JSON value, its typed       *)
(* projections get<T>(), copy assignment and keyed access on the heap      *)
(* representation, the recursive-descent JSONParser and the serializer     *)
(* JSON::dump.                                                             *)
(*                                                                         *)
(* Bytes of a text are written as one-character strings; Code gives the    *)
(* byte value where the program compares bytes numerically.  A double is   *)
(* the decimal fraction m / 10^e, normalised so that m is not a multiple   *)
(* of ten unless e = 0; every double that a short decimal text denotes has *)
(* exactly one such form.                                                  *)
(***************************************************************************)
EXTENDS Integers, Sequences, FiniteSets, TLC

VARIABLES
    gv, gres,                     \* projection: the Value and the outcome of get<T>()
    src, indent,                  \* serializer: the Value dump() is called on, its argument
    slots, pay,                   \* the JSON objects in memory and their heap payloads
    cur, ub, last, chain, calls,  \* the caller's reference; undefined behaviour; the last call
    data, pos, line, col,         \* JSONParser's members
    stk, ret,                     \* the parser's call stack and the last returned Value
    status, result, err,          \* how parse() ended: the Value or the exception
    consumed, oob,                \* the bytes advance() stepped over; a read past the text
    closers, edit,                \* where non-empty containers closed; the caller's second text
    expSeen                       \* a number production has stopped in front of 'e' or 'E'

getVars == <<gv, gres>>
parseVars ==
    <<data, pos, line, col, stk, ret, status, result, err, consumed, oob, closers, edit,
      expSeen>>
dumpVars == <<src, indent>>
heapVars == <<slots, pay, cur, ub, last, chain, calls>>
nonParseVars == <<gv, gres, src, indent, slots, pay, cur, ub, last, chain, calls>>
vars ==
    <<gv, gres, src, indent, slots, pay, cur, ub, last, chain, calls, data, pos, line, col, stk, ret, status, result, err, consumed, oob,
      closers, edit, expSeen>>

(***************************************************************************)
(* Bounds                                                                  *)
(***************************************************************************)
MaxInt == 2

(***************************************************************************)
(* The value model: enum Type and the constructors JSON(...)               *)
(***************************************************************************)
Types == {"Null", "Boolean", "Integer", "Double", "String", "Array", "Object"}

JNull == [type |-> "Null"]
JBool(b) == [type |-> "Boolean", boolean |-> b]
JInt(i) == [type |-> "Integer", integer |-> i]
JDouble(d) == [type |-> "Double", doubleVal |-> d]
JString(s) == [type |-> "String", string |-> s]
JArray(a) == [type |-> "Array", array |-> a]
JObject(o) == [type |-> "Object", object |-> o]

getType(v) == v.type

(***************************************************************************)
(* Doubles as normalised decimal fractions                                 *)
(***************************************************************************)
RECURSIVE Pow10(_)
Pow10(n) == IF n = 0 THEN 1 ELSE 10 * Pow10(n - 1)

RECURSIVE Normalise(_)
Normalise(d) ==
    IF d.e > 0 /\ d.m % 10 = 0
    THEN Normalise([m |-> d.m \div 10, e |-> d.e - 1])
    ELSE d

Dbl(m, e) == Normalise([m |-> m, e |-> e])

IntToDouble(i) == [m |-> i, e |-> 0]

\* static_cast<int>(double): the fraction is discarded, rounding towards zero
DoubleToInt(d) ==
    IF d.m >= 0 THEN d.m \div Pow10(d.e) ELSE -((-d.m) \div Pow10(d.e))

(***************************************************************************)
(* Type projection: JSONTypeTraits<T>::get                                 *)
(***************************************************************************)
Returned(T, x) == [T |-> T, ok |-> TRUE, val |-> x]
Thrown(T, msg) == [T |-> T, ok |-> FALSE, what |-> msg]

JSONTypeTraits_bool(json) ==
    IF getType(json) # "Boolean"
    THEN Thrown("bool", "Not a boolean")
    ELSE Returned("bool", json.boolean)

\* variant: get<int>() resolved to the generic arithmetic trait, which coerces
JSONTypeTraits_intCoercing(json) ==
    IF getType(json) = "Integer" THEN Returned("int", json.integer)
    ELSE IF getType(json) = "Double" THEN Returned("int", DoubleToInt(json.doubleVal))
    ELSE Thrown("int", "Not a numeric type")

JSONTypeTraits_int(json) ==
    IF getType(json) # "Integer"
    THEN Thrown("int", "Not an integer")
    ELSE Returned("int", json.integer)

JSONTypeTraits_double(json) ==
    IF getType(json) # "Double"
    THEN Thrown("double", "Not a double")
    ELSE Returned("double", json.doubleVal)

JSONTypeTraits_string(json) ==
    IF getType(json) # "String"
    THEN Thrown("string", "Not a string")
    ELSE Returned("string", json.string)

\* The arithmetic types that have no explicit specialisation of their own
OtherArithmetic == {"long", "float"}

StaticCastFromInt(T, i) == IF T = "float" THEN IntToDouble(i) ELSE i
StaticCastFromDouble(T, d) == IF T = "float" THEN d ELSE DoubleToInt(d)

JSONTypeTraits_arithmetic(T, json) ==
    CASE getType(json) = "Integer" -> Returned(T, StaticCastFromInt(T, json.integer))
      [] getType(json) = "Double" -> Returned(T, StaticCastFromDouble(T, json.doubleVal))
      [] OTHER -> Thrown(T, "Not a numeric type")

(***************************************************************************)
(* The value in memory.  A slot is the storage of one JSON object: the     *)
(* stack variables a and b, and the elements and members that live inside  *)
(* a vector or a map.  Its union is kept as the member last written (uk,   *)
(* "none" once clear() has released it), a scalar and a payload pointer.   *)
(***************************************************************************)
MaxSlots == 5
MaxPayloads == 3
MaxCalls == 4

Slots == 1..MaxSlots
Payloads == 1..MaxPayloads
SlotA == 1
SlotB == 2
Roots == {SlotA, SlotB}

HeapKeys == {<<"a">>, <<"b">>}
KeyOrder == <<(<<"a">>), (<<"b">>)>>
NoMembers == [k \in HeapKeys |-> 0]

HeapTypes == {"String", "Array", "Object"}

FreeSlot == [st |-> "free", type |-> "Null", uk |-> "none", scalar |-> 0, ptr |-> 0]
NullSlot == [st |-> "live", type |-> "Null", uk |-> "none", scalar |-> 0, ptr |-> 0]
FreePayload == [st |-> "free", str |-> <<>>, array |-> <<>>, object |-> NoMembers]

\* the memory together with what went wrong while an operation ran on it
Mem(s, p) == [slots |-> s, pay |-> p, ub |-> "none", oom |-> FALSE]
Stopped(H) == H.ub # "none" \/ H.oom
Undefined(H, why) == IF Stopped(H) THEN H ELSE [H EXCEPT !.ub = why]

FreeSlots(H) == {s \in Slots : H.slots[s].st = "free"}
FreePayloads(H) == {p \in Payloads : H.pay[p].st = "free"}
Least(S) == CHOOSE x \in S : \A y \in S : x <= y

Members(obj) == {obj[k] : k \in {j \in HeapKeys : obj[j] # 0}}
Elements(arr) == {arr[i] : i \in 1..Len(arr)}

RECURSIVE clear(_, _)
RECURSIVE destroyAll(_, _)

\* delete of the payload p: its elements are destroyed, its memory released
deletePayload(H, p) ==
    IF Stopped(H) THEN H
    ELSE IF H.pay[p].st # "live" THEN Undefined(H, "double free")
    ELSE LET inside == Elements(H.pay[p].array) \cup Members(H.pay[p].object)
             H1 == destroyAll(H, inside)
         IN  IF Stopped(H1) THEN H1 ELSE [H1 EXCEPT !.pay[p] = FreePayload]

\* ~JSON() of the objects in the set S
destroyAll(H, S) ==
    IF S = {} \/ Stopped(H) THEN H
    ELSE LET s == Least(S)
             H1 == clear(H, s)
         IN  destroyAll(IF Stopped(H1) THEN H1 ELSE [H1 EXCEPT !.slots[s] = FreeSlot],
                        S \ {s})

\* void clear(): delete the payload the tag names; type = Null
clear(H, s) ==
    IF Stopped(H) THEN H
    ELSE LET v == H.slots[s]
             H1 == IF v.type \in HeapTypes
                   THEN IF v.uk # v.type THEN Undefined(H, "read of an indeterminate payload pointer")
                        ELSE deletePayload(H, v.ptr)
                   ELSE H
         IN  IF Stopped(H1) THEN H1 ELSE [H1 EXCEPT !.slots[s] = NullSlot]

RECURSIVE copy(_, _, _)
RECURSIVE copyElements(_, _, _, _)
RECURSIVE copyMembers(_, _, _, _)

\* JSON(const JSON& other) : type(other.type) { copy(other); } into a new slot
copyConstruct(H, other) ==
    IF Stopped(H) THEN H
    ELSE IF FreeSlots(H) = {} THEN [H EXCEPT !.oom = TRUE]
    ELSE LET s == Least(FreeSlots(H))
             H1 == [H EXCEPT !.slots[s] = [NullSlot EXCEPT !.type = H.slots[other].type]]
         IN  copy(H1, s, other)

\* new std::vector<JSON>(*other.array), element by element, into payload p
copyElements(H, p, arr, i) ==
    IF i > Len(arr) \/ Stopped(H) THEN H
    ELSE LET s == Least(FreeSlots(H))
             H1 == copyConstruct(H, arr[i])
         IN  IF Stopped(H1) THEN H1
             ELSE copyElements([H1 EXCEPT !.pay[p].array = Append(@, s)], p, arr, i + 1)

\* new std::map<std::string, JSON>(*other.object), in key order, into payload p
copyMembers(H, p, obj, i) ==
    IF i > Len(KeyOrder) \/ Stopped(H) THEN H
    ELSE IF obj[KeyOrder[i]] = 0 THEN copyMembers(H, p, obj, i + 1)
    ELSE LET s == Least(FreeSlots(H))
             H1 == copyConstruct(H, obj[KeyOrder[i]])
         IN  IF Stopped(H1) THEN H1
             ELSE copyMembers([H1 EXCEPT !.pay[p].object[KeyOrder[i]] = s], p, obj, i + 1)

\* void copy(const JSON& other), on the object in slot s
copy(H, s, other) ==
    IF Stopped(H) THEN H
    ELSE LET v == H.slots[other]
         IN  IF v.st # "live" THEN Undefined(H, "read of a destroyed Value")
             ELSE IF v.type = "Null" THEN H
             ELSE IF v.uk # v.type THEN Undefined(H, "read of an indeterminate payload pointer")
             ELSE IF v.type \notin HeapTypes
             THEN [H EXCEPT !.slots[s].scalar = v.scalar, !.slots[s].uk = v.type]
             ELSE IF FreePayloads(H) = {} THEN [H EXCEPT !.oom = TRUE]
             ELSE LET p == Least(FreePayloads(H))
                      H1 == [H EXCEPT !.pay[p] =
                                [FreePayload EXCEPT !.st = "live", !.str = H.pay[v.ptr].str]]
                      H2 == IF v.type = "Array"
                            THEN copyElements(H1, p, H.pay[v.ptr].array, 1)
                            ELSE IF v.type = "Object"
                            THEN copyMembers(H1, p, H.pay[v.ptr].object, 1)
                            ELSE H1
                  IN  IF Stopped(H2) THEN H2
                      ELSE [H2 EXCEPT !.slots[s].ptr = p, !.slots[s].uk = v.type]

\* JSON& operator=(const JSON& other)
copyAssign(H, this, other) ==
    IF this # other
    THEN LET H1 == clear(H, this)
         IN  IF Stopped(H1) THEN H1
             ELSE IF H1.slots[other].st # "live"
             THEN Undefined(H1, "read of a destroyed Value")
             ELSE copy([H1 EXCEPT !.slots[this].type = H1.slots[other].type], this, other)
    ELSE H

RECURSIVE Tree(_, _)
\* the Value that the object in slot s holds
Tree(H, s) ==
    LET v == H.slots[s]
    IN  CASE v.type = "Null" -> JNull
          [] v.type = "Boolean" -> JBool(v.scalar)
          [] v.type = "Integer" -> JInt(v.scalar)
          [] v.type = "Double" -> JDouble(v.scalar)
          [] v.type = "String" -> JString(H.pay[v.ptr].str)
          [] v.type = "Array" ->
                JArray([i \in 1..Len(H.pay[v.ptr].array) |-> Tree(H, H.pay[v.ptr].array[i])])
          [] v.type = "Object" ->
                JObject([k \in {j \in HeapKeys : H.pay[v.ptr].object[j] # 0} |->
                            Tree(H, H.pay[v.ptr].object[k])])

(***************************************************************************)
(* The parser at rest (the specifications that do not parse keep it so)    *)
(***************************************************************************)
NoValue == [type |-> "none"]
NoError == [message |-> "", line |-> 0, col |-> 0]
NoEdit == [first |-> NoValue, afterComma |-> FALSE]

NoCall == [op |-> "none"]
NoChain == [fresh |-> FALSE, keys |-> <<>>]

HeapIdle ==
    /\ slots = [s \in Slots |-> FreeSlot]
    /\ pay = [p \in Payloads |-> FreePayload]
    /\ cur = SlotA /\ ub = "none" /\ last = NoCall /\ chain = NoChain /\ calls = 0

ParserIdle ==
    /\ data = <<>> /\ pos = 0 /\ line = 1 /\ col = 1
    /\ stk = <<>> /\ ret = NoValue
    /\ status = "idle" /\ result = NoValue /\ err = NoError
    /\ consumed = <<>> /\ oob = FALSE
    /\ closers = {} /\ edit = NoEdit /\ expSeen = FALSE

(***************************************************************************)
(* Projection specification: a Value is built by a constructor or by       *)
(* assignment from a native type, and get<T>() is applied to it.           *)
(***************************************************************************)
Ints == (-MaxInt)..MaxInt

\* doubles with at most one decimal place and an integer part in Ints
Doubles == {Dbl(m, e) : m \in (-(10 * MaxInt + 5))..(10 * MaxInt + 5), e \in {1}}

ScalarValues ==
    {JNull} \cup {JBool(b) : b \in BOOLEAN} \cup {JInt(i) : i \in Ints}
        \cup {JDouble(d) : d \in Doubles}
        \cup {JString(s) : s \in {<<>>, <<"a">>}}

GetValues == ScalarValues \cup {JArray(<<>>), JArray(<<JInt(1)>>), JObject(<<>>)}

NoResult == [T |-> "none", ok |-> FALSE, what |-> ""]

DumpIdle == src = NoValue /\ indent = 0

InitGet == gv \in GetValues /\ gres = NoResult /\ ParserIdle /\ DumpIdle /\ HeapIdle

Construct ==
    gv' \in ScalarValues /\ gv' # gv /\ gres' = NoResult /\ UNCHANGED <<dumpVars, heapVars, parseVars>>

GetBool == gres' = JSONTypeTraits_bool(gv) /\ UNCHANGED <<gv, dumpVars, heapVars, parseVars>>
GetInt == gres' = JSONTypeTraits_int(gv) /\ UNCHANGED <<gv, dumpVars, heapVars, parseVars>>
GetDouble == gres' = JSONTypeTraits_double(gv) /\ UNCHANGED <<gv, dumpVars, heapVars, parseVars>>
GetString == gres' = JSONTypeTraits_string(gv) /\ UNCHANGED <<gv, dumpVars, heapVars, parseVars>>
GetArithmetic == \E T \in OtherArithmetic :
    gres' = JSONTypeTraits_arithmetic(T, gv) /\ UNCHANGED <<gv, dumpVars, heapVars, parseVars>>

NextGet == Construct \/ GetBool \/ GetInt \/ GetDouble \/ GetString \/ GetArithmetic

SpecGet == InitGet /\ [][NextGet]_vars

NumericTags == {"Integer", "Double"}

\* C1 (as stated): get<int>() returns the stored integer of an Integer, the
\* truncated value of a Double, and fails on every other tag; and every
\* arithmetic T other than bool, int and double included, accepts both
\* numeric tags.
C1_Original ==
    /\ gres.T = "int" =>
          /\ getType(gv) = "Integer" => gres.ok /\ gres.val = gv.integer
          /\ getType(gv) = "Double" => gres.ok /\ gres.val = DoubleToInt(gv.doubleVal)
          /\ getType(gv) \notin NumericTags => ~gres.ok
    /\ gres.T \in {"int", "double"} \cup OtherArithmetic =>
          (getType(gv) \in NumericTags => gres.ok)

\* C1 (amended): get<int>() returns the stored integer of an Integer and
\* fails on every other tag, Double included; get<double>() returns the
\* stored double of a Double and fails on every other tag, Integer
\* included; for every arithmetic T other than bool, int and double,
\* get<T>() accepts the Integer and the Double tag, returning the numeric
\* cast (truncating towards zero from a Double to an integral T), and fails
\* on every other tag.
C1_Amended ==
    /\ gres.T = "int" =>
          /\ getType(gv) = "Integer" => gres.ok /\ gres.val = gv.integer
          /\ getType(gv) # "Integer" => ~gres.ok /\ gres.what = "Not an integer"
    /\ gres.T = "double" =>
          /\ getType(gv) = "Double" => gres.ok /\ gres.val = gv.doubleVal
          /\ getType(gv) # "Double" => ~gres.ok /\ gres.what = "Not a double"
    /\ gres.T \in OtherArithmetic =>
          /\ getType(gv) \in NumericTags <=> gres.ok
          /\ gres.T = "long" /\ getType(gv) = "Integer" => gres.val = gv.integer
          /\ gres.T = "long" /\ getType(gv) = "Double" =>
                /\ gres.val * Pow10(gv.doubleVal.e) <= gv.doubleVal.m \/ gv.doubleVal.m < 0
                /\ gres.val * Pow10(gv.doubleVal.e) >= gv.doubleVal.m \/ gv.doubleVal.m > 0
                /\ (gres.val + 1) * Pow10(gv.doubleVal.e) > gv.doubleVal.m
                /\ (gres.val - 1) * Pow10(gv.doubleVal.e) < gv.doubleVal.m

\* a Double with a fraction has been asked for as int and was refused
C1_Witness ==
    /\ gres.T = "int"
    /\ getType(gv) = "Double"
    /\ gv.doubleVal.e > 0
    /\ ~gres.ok

(***************************************************************************)
(* Bytes.  Code is the value of the byte as the program compares it.       *)
(***************************************************************************)
Code(c) ==
    CASE c = "NUL" -> 0   [] c = "SOH" -> 1   [] c = "BS" -> 8    [] c = "TAB" -> 9
      [] c = "LF" -> 10   [] c = "FF" -> 12   [] c = "CR" -> 13   [] c = " " -> 32
      [] c = "\"" -> 34   [] c = "," -> 44    [] c = "-" -> 45    [] c = "." -> 46
      [] c = "/" -> 47    [] c = "0" -> 48    [] c = "1" -> 49    [] c = "2" -> 50
      [] c = "3" -> 51    [] c = "4" -> 52    [] c = "5" -> 53    [] c = "6" -> 54
      [] c = "7" -> 55    [] c = "8" -> 56    [] c = "9" -> 57    [] c = ":" -> 58
      [] c = "E" -> 69    [] c = "[" -> 91    [] c = "\\" -> 92   [] c = "]" -> 93
      [] c = "a" -> 97    [] c = "b" -> 98    [] c = "c" -> 99    [] c = "d" -> 100
      [] c = "e" -> 101   [] c = "f" -> 102   [] c = "k" -> 107   [] c = "l" -> 108
      [] c = "n" -> 110   [] c = "r" -> 114   [] c = "s" -> 115   [] c = "t" -> 116
      [] c = "u" -> 117   [] c = "x" -> 120   [] c = "{" -> 123   [] c = "}" -> 125
      [] c = "DEL" -> 127

IsDigit(c) == Code(c) >= Code("0") /\ Code(c) <= Code("9")

\* isspace in the "C" locale: space, \t, \n, \v, \f, \r
IsSpace(c) == Code(c) = 32 \/ (Code(c) >= 9 /\ Code(c) <= 13)

DigitValue(c) == Code(c) - Code("0")

(***************************************************************************)
(* std::stoi and std::stod on the slice that parseNumber cuts out: an      *)
(* optional '-', a digit run and, for stod, a '.' and a second digit run.  *)
(***************************************************************************)
RECURSIVE DigitsToNat(_, _)
DigitsToNat(ds, acc) ==
    IF ds = <<>> THEN acc ELSE DigitsToNat(Tail(ds), 10 * acc + DigitValue(Head(ds)))

StripSign(t) == IF t # <<>> /\ Head(t) = "-" THEN Tail(t) ELSE t
Signed(t, k) == IF t # <<>> /\ Head(t) = "-" THEN -k ELSE k

\* no conversion could be performed: std::invalid_argument
StoiThrows(t) == StripSign(t) = <<>>
Stoi(t) == Signed(t, DigitsToNat(StripSign(t), 0))

DotAt(t) == CHOOSE i \in 1..Len(t) : t[i] = "."
IntPart(t) == SubSeq(t, 1, DotAt(t) - 1)
FracPart(t) == SubSeq(t, DotAt(t) + 1, Len(t))

StodThrows(t) == IntPart(StripSign(t)) = <<>> /\ FracPart(StripSign(t)) = <<>>
Stod(t) ==
    LET u == StripSign(t)
    IN  Dbl(Signed(t, DigitsToNat(IntPart(u) \o FracPart(u), 0)), Len(FracPart(u)))

(***************************************************************************)
(* std::map<std::string, JSON>: a function from the keys present           *)
(***************************************************************************)
EmptyMap == <<>>
MapPut(m, k, v) == [x \in (DOMAIN m) \cup {k} |-> IF x = k THEN v ELSE m[x]]

(***************************************************************************)
(* JSONParser.  One action per program point; the call stack stk holds a   *)
(* frame per active production with its locals.  data[size()] reads as the *)
(* terminating NUL; a read at a larger index is outside the text: it       *)
(* yields some byte or faults.                                             *)
(***************************************************************************)
MaxOverrun == 2

Garbage == {"NUL", "\"", "x"}

IntMax == 2147483647
IntMin == -IntMax - 1

PastEnd == pos > Len(data)
CanRead == pos <= Len(data) + MaxOverrun

\* data[pos], with g the byte a read outside the text yields
At(g) ==
    IF pos < Len(data) THEN data[pos + 1]
    ELSE IF pos = Len(data) THEN "NUL" ELSE g

Top == stk[Len(stk)]
Pop == SubSeq(stk, 1, Len(stk) - 1)
At_pc(fn, pc) == status = "run" /\ stk # <<>> /\ Top.fn = fn /\ Top.pc = pc

SkipFrame == [fn |-> "skipWhitespace", pc |-> "loop"]
ValueFrame == [fn |-> "parseValue", pc |-> "start"]
StringFrame == [fn |-> "parseString", pc |-> "enter", str |-> <<>>]

\* the frame continues at pc (with its locals as in f) after the callee returns
CallFrom(f, callee) == Append(Append(Pop, f), callee)

Goto(newStk, newRet) ==
    /\ stk' = newStk
    /\ ret' = newRet
    /\ UNCHANGED <<data, status, result, err, edit, nonParseVars>>

Continue(newStk, newRet) == Goto(newStk, newRet) /\ UNCHANGED expSeen

Return(v) == Continue(Pop, v)

\* parseNumber returns v with ch the byte its digit run stopped at
ReturnNumber(v, ch) == Goto(Pop, v) /\ expSeen' = (expSeen \/ ch \in {"e", "E"})

\* no byte is consumed and none is read
Stay == UNCHANGED <<pos, line, col, consumed, oob, closers>>

\* data[pos] is read and not consumed
Look == oob' = (oob \/ PastEnd) /\ UNCHANGED <<pos, line, col, consumed, closers>>

\* variant: advance() that counts the line and never resets the column
advanceNoColumnReset(ch) ==
    /\ pos' = pos + 1
    /\ line' = IF ch = "LF" THEN line + 1 ELSE line
    /\ col' = col + 1
    /\ consumed' = Append(consumed, ch)
    /\ oob' = (oob \/ PastEnd)

\* advance(): one byte, ch being data[pos]
advanceOver(ch) ==
    /\ pos' = pos + 1
    /\ line' = IF ch = "LF" THEN line + 1 ELSE line
    /\ col' = IF ch = "LF" THEN 1 ELSE col + 1
    /\ consumed' = Append(consumed, ch)
    /\ oob' = (oob \/ PastEnd)

advance(ch) == advanceOver(ch) /\ UNCHANGED closers

\* the closing bracket of a container is consumed; one that holds elements is noted
advanceClosing(ch, nonEmpty, afterComma) ==
    /\ advanceOver(ch)
    /\ closers' = IF nonEmpty
                  THEN closers \cup {[at |-> pos, afterComma |-> afterComma]}
                  ELSE closers

\* advance(count) over the bytes of a literal that strncmp has just matched
advanceLiteral(lit) ==
    /\ pos' = pos + Len(lit)
    /\ line' = line
    /\ col' = col + Len(lit)
    /\ consumed' = consumed \o lit
    /\ oob' = (oob \/ PastEnd)
    /\ UNCHANGED closers

Raise(kind, msg) ==
    /\ status' = kind
    /\ err' = [message |-> msg, line |-> line, col |-> col]
    /\ stk' = <<>>
    /\ ret' = NoValue
    /\ UNCHANGED <<data, result, edit, expSeen, nonParseVars>>

throwError(message) == Raise("syntax", message)

\* an exception of the standard library: it carries no position
StdThrow(kind, msg) ==
    /\ status' = kind
    /\ err' = [message |-> msg, line |-> 0, col |-> 0]
    /\ stk' = <<>>
    /\ ret' = NoValue
    /\ UNCHANGED <<data, result, edit, expSeen, nonParseVars>>

\* strncmp(&data[pos], lit, strlen(lit)) == 0
Matches(lit) ==
    /\ pos + Len(lit) <= Len(data)
    /\ SubSeq(data, pos + 1, pos + Len(lit)) = lit

ParserStart(text) ==
    /\ data = text /\ pos = 0 /\ line = 1 /\ col = 1
    /\ stk = <<[fn |-> "parse", pc |-> "start"]>> /\ ret = NoValue
    /\ status = "run" /\ result = NoValue /\ err = NoError
    /\ consumed = <<>> /\ oob = FALSE
    /\ closers = {} /\ expSeen = FALSE

----
\* parse(): skipWhitespace(); return parseValue();
ParseStart ==
    /\ At_pc("parse", "start")
    /\ Continue(CallFrom([Top EXCEPT !.pc = "value"], SkipFrame), ret)
    /\ Stay

ParseCallValue ==
    /\ At_pc("parse", "value")
    /\ Continue(CallFrom([Top EXCEPT !.pc = "return"], ValueFrame), ret)
    /\ Stay

ParseReturn ==
    /\ At_pc("parse", "return")
    /\ status' = "ok"
    /\ result' = ret
    /\ stk' = <<>>
    /\ UNCHANGED <<data, ret, err, edit, expSeen, nonParseVars>>
    /\ Stay

\* while (data[pos] && isspace(data[pos])) advance();
SkipWhitespace ==
    /\ At_pc("skipWhitespace", "loop")
    /\ CanRead
    /\ \E g \in Garbage :
        LET ch == At(g)
        IN  IF ch # "NUL" /\ IsSpace(ch)
            THEN advance(ch) /\ Continue(stk, ret)
            ELSE Look /\ Return(ret)

\* parseValue(): skipWhitespace(); then dispatch on data[pos]
ParseValueStart ==
    /\ At_pc("parseValue", "start")
    /\ Continue(CallFrom([Top EXCEPT !.pc = "dispatch"], SkipFrame), ret)
    /\ Stay

Production(ch) ==
    CASE ch = "{" -> [fn |-> "parseObject", pc |-> "enter", obj |-> EmptyMap,
                       key |-> <<>>, sep |-> FALSE]
      [] ch = "[" -> [fn |-> "parseArray", pc |-> "enter", arr |-> <<>>, sep |-> FALSE]
      [] ch = "\"" -> StringFrame
      [] ch \in {"t", "f"} -> [fn |-> "parseBoolean", pc |-> "start"]
      [] ch = "n" -> [fn |-> "parseNull", pc |-> "start"]
      [] OTHER -> [fn |-> "parseNumber", pc |-> "sign", start |-> pos]

ParseValueDispatch ==
    /\ At_pc("parseValue", "dispatch")
    /\ CanRead
    /\ \E g \in Garbage :
        LET ch == At(g)
        IN  /\ Look
            /\ IF ch \in {"{", "[", "\"", "t", "f", "n", "-"} \/ IsDigit(ch)
               THEN Continue(Append(Pop, Production(ch)), ret)
               ELSE throwError("Unexpected character in JSON")

----
\* parseObject(): advance(); std::map obj; skipWhitespace();
ParseObjectEnter ==
    /\ At_pc("parseObject", "enter")
    /\ CanRead
    /\ \E g \in Garbage : advance(At(g))
    /\ Continue(CallFrom([Top EXCEPT !.pc = "loop"], SkipFrame), ret)

\* while (data[pos] != '}') { key = parseString()...;  } advance(); return JSON(obj);
ParseObjectLoop ==
    /\ At_pc("parseObject", "loop")
    /\ CanRead
    /\ \E g \in Garbage :
        LET ch == At(g)
        IN  IF ch # "}"
            THEN Look /\ Continue(CallFrom([Top EXCEPT !.pc = "key"], StringFrame), ret)
            ELSE /\ advanceClosing(ch, DOMAIN Top.obj # {}, Top.sep)
                 /\ Return(JObject(Top.obj))

\* key = parseString().get<std::string>(); skipWhitespace();
ParseObjectKey ==
    /\ At_pc("parseObject", "key")
    /\ Continue(CallFrom([Top EXCEPT !.pc = "colon", !.key = JSONTypeTraits_string(ret).val],
                         SkipFrame), ret)
    /\ Stay

\* if (data[pos] != ':') throwError(...); advance(); JSON value = parseValue();
ParseObjectColon ==
    /\ At_pc("parseObject", "colon")
    /\ CanRead
    /\ \E g \in Garbage :
        LET ch == At(g)
        IN  IF ch # ":"
            THEN Look /\ throwError("Expected ':' in JSON object")
            ELSE advance(ch) /\ Continue(CallFrom([Top EXCEPT !.pc = "store"], ValueFrame), ret)

\* obj[key] = value; skipWhitespace();
ParseObjectStore ==
    /\ At_pc("parseObject", "store")
    /\ Continue(CallFrom([Top EXCEPT !.pc = "comma", !.obj = MapPut(Top.obj, Top.key, ret)],
                         SkipFrame), ret)
    /\ Stay

\* if (data[pos] == ',') { advance(); skipWhitespace(); }
ParseObjectComma ==
    /\ At_pc("parseObject", "comma")
    /\ CanRead
    /\ \E g \in Garbage :
        LET ch == At(g)
        IN  IF ch = ","
            THEN /\ advance(ch)
                 /\ Continue(CallFrom([Top EXCEPT !.pc = "loop", !.sep = TRUE], SkipFrame), ret)
            ELSE /\ Look
                 /\ Continue(Append(Pop, [Top EXCEPT !.pc = "loop", !.sep = FALSE]), ret)

----
\* parseArray(): advance(); std::vector arr; skipWhitespace();
ParseArrayEnter ==
    /\ At_pc("parseArray", "enter")
    /\ CanRead
    /\ \E g \in Garbage : advance(At(g))
    /\ Continue(CallFrom([Top EXCEPT !.pc = "loop"], SkipFrame), ret)

\* while (data[pos] != ']') { arr.push_back(parseValue()); ... } advance(); return JSON(arr);
ParseArrayLoop ==
    /\ At_pc("parseArray", "loop")
    /\ CanRead
    /\ \E g \in Garbage :
        LET ch == At(g)
        IN  IF ch # "]"
            THEN Look /\ Continue(CallFrom([Top EXCEPT !.pc = "push"], ValueFrame), ret)
            ELSE /\ advanceClosing(ch, Top.arr # <<>>, Top.sep)
                 /\ Return(JArray(Top.arr))

\* arr.push_back(...); skipWhitespace();
ParseArrayPush ==
    /\ At_pc("parseArray", "push")
    /\ Continue(CallFrom([Top EXCEPT !.pc = "comma", !.arr = Append(Top.arr, ret)],
                         SkipFrame), ret)
    /\ Stay

\* variant: a comma must be followed by another element
ParseArrayCommaStrict ==
    /\ At_pc("parseArray", "comma")
    /\ CanRead
    /\ \E g \in Garbage :
        LET ch == At(g)
        IN  IF ch = ","
            THEN /\ advance(ch)
                 /\ Continue(CallFrom([Top EXCEPT !.pc = "push", !.sep = TRUE], ValueFrame), ret)
            ELSE /\ Look
                 /\ Continue(Append(Pop, [Top EXCEPT !.pc = "loop", !.sep = FALSE]), ret)

\* if (data[pos] == ',') { advance(); skipWhitespace(); }
ParseArrayComma ==
    /\ At_pc("parseArray", "comma")
    /\ CanRead
    /\ \E g \in Garbage :
        LET ch == At(g)
        IN  IF ch = ","
            THEN /\ advance(ch)
                 /\ Continue(CallFrom([Top EXCEPT !.pc = "loop", !.sep = TRUE], SkipFrame), ret)
            ELSE /\ Look
                 /\ Continue(Append(Pop, [Top EXCEPT !.pc = "loop", !.sep = FALSE]), ret)

----
\* parseString(): advance(); std::string str;
ParseStringEnter ==
    /\ At_pc("parseString", "enter")
    /\ CanRead
    /\ \E g \in Garbage : advance(At(g))
    /\ Continue(Append(Pop, [Top EXCEPT !.pc = "loop"]), ret)

\* while (data[pos] != '"') { backslash: advance(), escape; else str += data[pos]; advance(); }
\* advance(); return JSON(str);
ParseStringLoop ==
    /\ At_pc("parseString", "loop")
    /\ CanRead
    /\ \E g \in Garbage :
        LET ch == At(g)
        IN  /\ advance(ch)
            /\ CASE ch = "\"" -> Return(JString(Top.str))
                 [] ch = "\\" -> Continue(Append(Pop, [Top EXCEPT !.pc = "escape"]), ret)
                 [] OTHER -> Continue(Append(Pop, [Top EXCEPT !.str = Append(Top.str, ch)]), ret)

EscapeChars == {"\\", "\"", "/", "b", "f", "n", "r", "t"}

Unescape(ch) ==
    CASE ch = "\\" -> "\\"  [] ch = "\"" -> "\""  [] ch = "/" -> "/"
      [] ch = "b" -> "BS"   [] ch = "f" -> "FF"   [] ch = "n" -> "LF"
      [] ch = "r" -> "CR"   [] ch = "t" -> "TAB"

\* switch (data[pos]) { case ...: str += ...; default: throwError(...); } advance();
ParseStringEscape ==
    /\ At_pc("parseString", "escape")
    /\ CanRead
    /\ \E g \in Garbage :
        LET ch == At(g)
        IN  IF ch \in EscapeChars
            THEN /\ advance(ch)
                 /\ Continue(Append(Pop, [Top EXCEPT !.pc = "loop",
                                                     !.str = Append(Top.str, Unescape(ch))]), ret)
            ELSE Look /\ throwError("Invalid escape character in string")

----
ParseBoolean ==
    /\ At_pc("parseBoolean", "start")
    /\ CanRead
    /\ IF Matches(<<"t", "r", "u", "e">>)
       THEN advanceLiteral(<<"t", "r", "u", "e">>) /\ Return(JBool(TRUE))
       ELSE IF Matches(<<"f", "a", "l", "s", "e">>)
       THEN advanceLiteral(<<"f", "a", "l", "s", "e">>) /\ Return(JBool(FALSE))
       ELSE Look /\ throwError("Unexpected boolean value in JSON")

ParseNull ==
    /\ At_pc("parseNull", "start")
    /\ CanRead
    /\ IF Matches(<<"n", "u", "l", "l">>)
       THEN advanceLiteral(<<"n", "u", "l", "l">>) /\ Return(JNull)
       ELSE Look /\ throwError("Unexpected null value in JSON")

----
\* std::string(&data[start], pos - start)
Slice(start) == SubSeq(data, start + 1, pos)

\* size_t start = pos; if (data[pos] == '-') advance();
ParseNumberSign ==
    /\ At_pc("parseNumber", "sign")
    /\ CanRead
    /\ \E g \in Garbage :
        LET ch == At(g)
        IN  IF ch = "-" THEN advance(ch) ELSE Look
    /\ Continue(Append(Pop, [Top EXCEPT !.pc = "digits"]), ret)

\* while (digit) advance(); if (data[pos] == '.') {...} else return JSON(std::stoi(...));
ParseNumberDigits ==
    /\ At_pc("parseNumber", "digits")
    /\ CanRead
    /\ \E g \in Garbage :
        LET ch == At(g)
            text == Slice(Top.start)
        IN  CASE IsDigit(ch) -> advance(ch) /\ Continue(stk, ret)
              [] ch = "." -> advance(ch) /\ Continue(Append(Pop, [Top EXCEPT !.pc = "fraction"]), ret)
              [] OTHER ->
                    /\ Look
                    /\ IF StoiThrows(text) THEN StdThrow("invalid_argument", "stoi")
                       ELSE IF Stoi(text) > IntMax \/ Stoi(text) < IntMin
                       THEN StdThrow("out_of_range", "stoi")
                       ELSE ReturnNumber(JInt(Stoi(text)), ch)

\* while (digit) advance(); return JSON(std::stod(...));
ParseNumberFraction ==
    /\ At_pc("parseNumber", "fraction")
    /\ CanRead
    /\ \E g \in Garbage :
        LET ch == At(g)
            text == Slice(Top.start)
        IN  IF IsDigit(ch) THEN advance(ch) /\ Continue(stk, ret)
            ELSE /\ Look
                 /\ IF StodThrows(text) THEN StdThrow("invalid_argument", "stod")
                    ELSE ReturnNumber(JDouble(Stod(text)), ch)

----
\* a read outside the text may also fault; beyond MaxOverrun bytes it is the
\* only outcome the model follows
Segfault ==
    /\ status = "run"
    /\ PastEnd
    /\ status' = "crash"
    /\ stk' = <<>>
    /\ ret' = NoValue
    /\ oob' = TRUE
    /\ UNCHANGED <<data, pos, line, col, consumed, result, err, closers, edit,
                   expSeen, nonParseVars>>

(***************************************************************************)
(* The serializer.  oss is the std::ostringstream of dump(): the text      *)
(* written so far and the basefield flag, which std::hex sets for the rest *)
(* of the stream's life.                                                   *)
(***************************************************************************)
NewStream == [buf |-> <<>>, hex |-> FALSE]
Put(oss, bytes) == [oss EXCEPT !.buf = @ \o bytes]

DecChars == <<"0", "1", "2", "3", "4", "5", "6", "7", "8", "9">>
HexChars == DecChars \o <<"a", "b", "c", "d", "e", "f">>

RECURSIVE Digits(_, _, _)
\* the digits of n >= 0 in the given base, most significant first
Digits(n, base, chars) ==
    IF n < base THEN <<chars[n + 1]>>
    ELSE Append(Digits(n \div base, base, chars), chars[(n % base) + 1])

RECURSIVE Nibble(_, _)
\* the k-th hexadecimal digit of n >= 0, counted from the least significant
Nibble(n, k) == IF k = 0 THEN n % 16 ELSE Nibble(n \div 16, k - 1)

Decimal(i) ==
    IF i < 0 THEN <<"-">> \o Digits(-i, 10, DecChars) ELSE Digits(i, 10, DecChars)

\* a negative int in base 16 is written as the 32-bit unsigned value 2^32 + i
Hexadecimal(i) ==
    IF i >= 0 THEN Digits(i, 16, HexChars)
    ELSE [k \in 1..8 |-> HexChars[(15 - Nibble(-i - 1, 8 - k)) + 1]]

RECURSIVE Repeat(_, _)
Repeat(c, k) == IF k <= 0 THEN <<>> ELSE <<c>> \o Repeat(c, k - 1)

\* std::setw(4) << std::setfill('0')
PadLeft(t, w, c) == Repeat(c, w - Len(t)) \o t

\* oss << value.integer
WriteInt(oss, i) == Put(oss, IF oss.hex THEN Hexadecimal(i) ELSE Decimal(i))

Abs(i) == IF i < 0 THEN -i ELSE i

\* oss << value.doubleVal, for a double that the default format (%g with six
\* significant digits) writes in full and without an exponent
WriteDouble(oss, d) ==
    LET whole == Abs(d.m) \div Pow10(d.e)
        frac == Abs(d.m) % Pow10(d.e)
    IN  Put(oss, (IF d.m < 0 THEN <<"-">> ELSE <<>>)
                 \o Digits(whole, 10, DecChars)
                 \o (IF d.e > 0
                     THEN <<".">> \o PadLeft(Digits(frac, 10, DecChars), d.e, "0")
                     ELSE <<>>))

IsControl(ch) == Code(ch) < 32 \/ Code(ch) = 127

dumpChar(oss, ch) ==
    CASE ch = "\"" -> Put(oss, <<"\\", "\"">>)
      [] ch = "\\" -> Put(oss, <<"\\", "\\">>)
      [] ch = "BS" -> Put(oss, <<"\\", "b">>)
      [] ch = "FF" -> Put(oss, <<"\\", "f">>)
      [] ch = "LF" -> Put(oss, <<"\\", "n">>)
      [] ch = "CR" -> Put(oss, <<"\\", "r">>)
      [] ch = "TAB" -> Put(oss, <<"\\", "t">>)
      [] OTHER ->
            IF IsControl(ch)
            THEN [buf |-> oss.buf \o <<"\\", "u">> \o PadLeft(Hexadecimal(Code(ch)), 4, "0"),
                  hex |-> TRUE]
            ELSE Put(oss, <<ch>>)

RECURSIVE dumpChars(_, _)
dumpChars(oss, str) ==
    IF str = <<>> THEN oss ELSE dumpChars(dumpChar(oss, Head(str)), Tail(str))

dumpString(str, oss) == Put(dumpChars(Put(oss, <<"\"">>), str), <<"\"">>)

\* std::string's operator<, which compares bytes as unsigned
RECURSIVE KeyLess(_, _)
KeyLess(a, b) ==
    IF b = <<>> THEN FALSE
    ELSE IF a = <<>> THEN TRUE
    ELSE IF Head(a) = Head(b) THEN KeyLess(Tail(a), Tail(b))
    ELSE Code(Head(a)) < Code(Head(b))

RECURSIVE SortedKeys(_)
\* the keys of a std::map in iteration order
SortedKeys(ks) ==
    IF ks = {} THEN <<>>
    ELSE LET least == CHOOSE k \in ks : \A o \in ks \ {k} : KeyLess(k, o)
         IN  <<least>> \o SortedKeys(ks \ {least})

RECURSIVE dumpValue(_, _, _, _)
RECURSIVE dumpItems(_, _, _, _, _, _)
RECURSIVE dumpMembers(_, _, _, _, _, _)

\* the body of dumpArray's second loop, from element i on
dumpItems(arr, i, prettyPrint, oss, level, ind) ==
    IF i > Len(arr) THEN oss
    ELSE LET o1 == IF prettyPrint THEN Put(oss, Repeat(" ", level + ind)) ELSE oss
             o2 == dumpValue(arr[i], o1, level + ind, ind)
             o3 == IF i < Len(arr)
                   THEN Put(o2, IF prettyPrint THEN <<",">> ELSE <<",", " ">>)
                   ELSE o2
             o4 == IF prettyPrint THEN Put(o3, <<"LF">>) ELSE o3
         IN  dumpItems(arr, i + 1, prettyPrint, o4, level, ind)

dumpArray(arr, oss, level, ind) ==
    LET hasComplexChildren == \E i \in 1..Len(arr) : getType(arr[i]) \in {"Object", "Array"}
        prettyPrint == hasComplexChildren /\ ind > 0
        o1 == Put(oss, IF prettyPrint THEN <<"[", "LF">> ELSE <<"[">>)
        o2 == dumpItems(arr, 1, prettyPrint, o1, level, ind)
        o3 == IF prettyPrint THEN Put(o2, Repeat(" ", level)) ELSE o2
    IN  Put(o3, <<"]">>)

\* the body of dumpObject's loop, from the i-th key in order on
dumpMembers(obj, keys, i, oss, level, ind) ==
    IF i > Len(keys) THEN oss
    ELSE LET o1 == IF ind > 0 THEN Put(oss, Repeat(" ", level + ind)) ELSE oss
             o2 == Put(dumpString(keys[i], o1), IF ind > 0 THEN <<":", " ">> ELSE <<":">>)
             o3 == dumpValue(obj[keys[i]], o2, level + ind, ind)
             o4 == IF i < Len(keys) THEN Put(o3, <<",">>) ELSE o3
             o5 == IF ind > 0 THEN Put(o4, <<"LF">>) ELSE o4
         IN  dumpMembers(obj, keys, i + 1, o5, level, ind)

dumpObject(obj, oss, level, ind) ==
    LET o1 == Put(oss, IF ind > 0 THEN <<"{", "LF">> ELSE <<"{">>)
        o2 == dumpMembers(obj, SortedKeys(DOMAIN obj), 1, o1, level, ind)
        o3 == IF ind > 0 THEN Put(o2, Repeat(" ", level)) ELSE o2
    IN  Put(o3, <<"}">>)

dumpValue(value, oss, level, ind) ==
    CASE getType(value) = "Null" -> Put(oss, <<"n", "u", "l", "l">>)
      [] getType(value) = "Boolean" ->
            Put(oss, IF value.boolean THEN <<"t", "r", "u", "e">>
                                      ELSE <<"f", "a", "l", "s", "e">>)
      [] getType(value) = "Integer" -> WriteInt(oss, value.integer)
      [] getType(value) = "Double" -> WriteDouble(oss, value.doubleVal)
      [] getType(value) = "String" -> dumpString(value.string, oss)
      [] getType(value) = "Array" -> dumpArray(value.array, oss, level, ind)
      [] getType(value) = "Object" -> dumpObject(value.object, oss, level, ind)

\* std::string dump(int indent = 4) const
dump(value, ind) == dumpValue(value, NewStream, 0, ind).buf

(***************************************************************************)
(* Parsing specification: JSONParser::parse(text) on every short text over *)
(* Alphabet and on the longer texts of Examples; after a parse that        *)
(* returned an array or an object the caller may put a comma before the    *)
(* closing bracket of a non-empty container and parse the new text.        *)
(***************************************************************************)
MaxLen == 4

Alphabet == {"[", "]", ",", "1", "\"", "e", "LF", "\\"}

RECURSIVE TextsUpTo(_)
TextsUpTo(k) ==
    IF k = 0 THEN {<<>>}
    ELSE LET shorter == TextsUpTo(k - 1)
         IN  shorter \cup {Append(t, c) : t \in {u \in shorter : Len(u) = k - 1}, c \in Alphabet}

ObjectTexts ==
    {<<"{">> \o k \o <<":">> \o v \o rest :
        k \in {<<"\"", "a", "\"">>, <<"x", "a", "\"">>, <<"x", "\"">>, <<" ", "\"", "\"", " ">>},
        v \in {<<"1">>, <<"1", "e", "5">>, <<"1", "E", "5">>, <<"[", "1", "]">>,
               <<"{", "}">>, <<" ">>, <<"t", "r", "u", "e">>, <<"1", ".", "5">>},
        rest \in {<<"}">>, <<",", "}">>, <<" ", "}">>, <<>>, <<"e", "\"", ":", "2", "}">>,
                  <<",", "\"", "b", "\"", ":", "n", "u", "l", "l", "}">>,
                  <<"\"", "a", "\"", ":", "2", "}">>}}

Examples ==
    { <<"{", "LF", " ", " ", "\"", "a", "\"", ":", " ", "}">>,
      <<"[", "1", ",", "2", "]">>,
      <<"[", "1", ",", "2", ",", "]">>,
      <<"[", "1", ",", "2", ",", " ", "]">>,
      <<"[", "[", "1", "]", ",", "2", "]">>,
      <<"[", "1", ",", "2", ",", "3", "]">>,
      <<"1", "e", "5">>, <<"1", "E", "5">>, <<"-", "1", "e", "5">>, <<"1", ".", "5", "e", "5">>,
      <<"[", "1", "e", "5", "]">>, <<"[", "1", "E", "5", "]">>,
      <<"\"", "a", "b", "c">>, <<"\"", "a", "\\">>,
      <<"{", "\"", "a", "\"", ":", "1">>, <<"[", "1">>, <<"{">>, <<"{", "}">>,
      <<"\"", "a", "\\", "n", "b", "\"">>, <<"\"", "\\", "u", "0", "0", "4", "1", "\"">>,
      <<"\"", "\\", "t", "\\", "r", "\\", "b", "\\", "f", "\\", "/", "\"">>,
      <<" ", "t", "r", "u", "e">>, <<"f", "a", "l", "s", "e">>, <<"n", "u", "l", "l">>,
      <<"t", "r", "u", "x">>, <<"f", "a", "l", "s">>, <<"n", "u", "l">>,
      <<"-">>, <<"-", ".">>, <<"-", "1", ".", "5">>, <<"1", ".">>, <<"-", ".", "5">>,
      <<"[", "LF", "1", ",", "LF", "x", "]">>,
      <<"[", "\"", "LF", "\"", ",", "LF", ",", "]">>,
      <<"TAB", "[", "CR", "LF", "t", "r", "u", "e", " ", "f", "a", "l", "s", "e", "]">> }

ParseTexts == TextsUpTo(MaxLen) \cup ObjectTexts \cup Examples

InitParse ==
    /\ gv = JNull /\ gres = NoResult /\ DumpIdle /\ HeapIdle
    /\ edit = NoEdit
    /\ \E text \in ParseTexts : ParserStart(text)

Whitespace == {<<>>, <<" ">>}

InsertTrailingComma ==
    /\ status = "ok"
    /\ edit = NoEdit
    /\ getType(result) \in {"Array", "Object"}
    /\ \E c \in closers, ws \in Whitespace :
          /\ data' = SubSeq(data, 1, c.at) \o <<",">> \o ws \o SubSeq(data, c.at + 1, Len(data))
          /\ edit' = [first |-> result, afterComma |-> c.afterComma]
    /\ pos' = 0 /\ line' = 1 /\ col' = 1
    /\ stk' = <<[fn |-> "parse", pc |-> "start"]>> /\ ret' = NoValue
    /\ status' = "run" /\ result' = NoValue /\ err' = NoError
    /\ consumed' = <<>> /\ oob' = FALSE /\ closers' = {} /\ expSeen' = FALSE
    /\ UNCHANGED nonParseVars


NextParse ==
    \/ InsertTrailingComma
    \/ ParseStart \/ ParseCallValue \/ ParseReturn \/ SkipWhitespace
    \/ ParseValueStart \/ ParseValueDispatch
    \/ ParseObjectEnter \/ ParseObjectLoop \/ ParseObjectKey \/ ParseObjectColon
    \/ ParseObjectStore \/ ParseObjectComma
    \/ ParseArrayEnter \/ ParseArrayLoop \/ ParseArrayPush \/ ParseArrayComma
    \/ ParseStringEnter \/ ParseStringLoop \/ ParseStringEscape
    \/ ParseBoolean \/ ParseNull
    \/ ParseNumberSign \/ ParseNumberDigits \/ ParseNumberFraction
    \/ Segfault

SpecParse == InitParse /\ [][NextParse]_vars

(***************************************************************************)
(* Claims about the parser                                                 *)
(***************************************************************************)
RECURSIVE CountLF(_)
CountLF(bs) ==
    IF bs = <<>> THEN 0
    ELSE (IF Head(bs) = "LF" THEN 1 ELSE 0) + CountLF(Tail(bs))

\* the index of the last newline of bs, 0 when it has none
LastLF(bs) ==
    IF \E i \in 1..Len(bs) : bs[i] = "LF"
    THEN CHOOSE i \in 1..Len(bs) : bs[i] = "LF" /\ \A j \in (i + 1)..Len(bs) : bs[j] # "LF"
    ELSE 0

FirstParse == edit = NoEdit
Ended == status \in {"ok", "syntax", "invalid_argument", "out_of_range", "crash"}

KeyWithoutQuote == <<"{", "x", "a", "\"", ":", "1", "}">>

\* C5: inside an object a member position that holds neither '"' nor '}'
\* makes parse fail with a SyntaxError at that byte: parseString is never
\* entered on a byte that is not '"', and the text {xa":1} is rejected.
C5_KeyMustBeQuoted ==
    /\ At_pc("parseString", "enter") /\ pos <= Len(data) => At("NUL") = "\""
    /\ data = KeyWithoutQuote /\ Ended =>
          status = "syntax" /\ err.line = 1 /\ err.col = 2

\* C6: a text in which the digit run of a number is directly followed by
\* 'e' or 'E' never yields a Value: once the number production has stopped
\* in front of the exponent letter, parse ends in a SyntaxError.
C6_ExponentRejected ==
    FirstParse /\ expSeen /\ Ended => status = "syntax"

\* C7 (as stated): a comma (and optional whitespace) put directly before
\* the closing bracket of a non-empty container of a text that parsed leaves
\* the parse successful and its Value the same.
C7_Original ==
    ~FirstParse /\ Ended => status = "ok" /\ result = edit.first

\* C7 (amended): the same, for a container whose closing bracket is not
\* already preceded by a comma (a second comma there is a SyntaxError).
C7_TrailingComma ==
    ~FirstParse /\ ~edit.afterComma /\ Ended => status = "ok" /\ result = edit.first

\* [1,2,] has been parsed after [1,2] and holds two elements
C7_Witness ==
    /\ ~FirstParse /\ ~edit.afterComma /\ status = "ok"
    /\ data = <<"[", "1", ",", "2", ",", "]">>
    /\ result = JArray(<<JInt(1), JInt(2)>>)
    /\ edit.first = result

TwoLines == <<"{", "LF", " ", " ", "\"", "a", "\"", ":", " ", "}">>

\* C8: in every state line is 1 + the newlines consumed and col is 1 + the
\* bytes consumed since the last of them; the bytes consumed are the text up
\* to the cursor; a SyntaxError carries the line and column of the cursor;
\* the two-line text fails at its '}' at line 2, column 8.
C8_LineColumn ==
    /\ Len(consumed) = pos
    /\ pos <= Len(data) => consumed = SubSeq(data, 1, pos)
    /\ line = 1 + CountLF(consumed)
    /\ col = 1 + (pos - LastLF(consumed))
    /\ status = "syntax" => err.line = line /\ err.col = col
    /\ data = TwoLines /\ Ended =>
          /\ status = "syntax" /\ err.line = 2 /\ err.col = 8
          /\ data[pos + 1] = "}"

\* a SyntaxError on the second line of a text, past its first column
C8_Witness ==
    /\ status = "syntax" /\ err.line = 2 /\ err.col > 1
    /\ CountLF(SubSeq(data, 1, pos)) = 1

\* C10: in every state of a parse the cursor is inside the text,
\* 0 <= pos <= n, no byte past the end of the text has been read or
\* consumed, and the parse does not end in a memory fault.
C10_CursorInText ==
    /\ pos >= 0 /\ pos <= Len(data)
    /\ ~oob
    /\ status # "crash"

(***************************************************************************)
(* Serializer specification: dump(indent) is called on a Value and the     *)
(* text it returns is handed to JSONParser::parse.                         *)
(***************************************************************************)
MaxIndent == 2

Indents == (-1)..MaxIndent

DumpStrings ==
    { <<>>, <<"a">>, <<"\"", "\\">>, <<"a", "LF", "b">>, <<"/">>,
      <<"TAB", "CR", "BS", "FF">>, <<"SOH">>, <<"DEL", "a">> }

DumpKeys == {<<>>, <<"a">>, <<"b">>, <<"SOH">>, <<"\"">>}

DumpLeaves ==
    {JNull, JBool(TRUE), JBool(FALSE)}
        \cup {JInt(i) : i \in Ints \cup {10, 255, -255}}
        \cup {JDouble(Dbl(m, e)) : m \in {0, 5, -15, 20, 125}, e \in 1..2}
        \cup {JString(t) : t \in DumpStrings}

SmallLeaves ==
    {JNull, JInt(1), JInt(255), JDouble(Dbl(5, 1)), JString(<<"a">>), JString(<<"SOH">>)}

FlatArrays ==
    {JArray(<<>>)} \cup {JArray(<<x>>) : x \in DumpLeaves}
        \cup {JArray(<<x, y>>) : x \in SmallLeaves, y \in SmallLeaves}

FlatObjects ==
    {JObject(EmptyMap)} \cup {JObject(k :> x) : k \in DumpKeys, x \in SmallLeaves}
        \cup {JObject((j :> x) @@ (k :> y)) :
                j \in {<<"a">>, <<"SOH">>}, k \in {<<>>, <<"b">>},
                x \in SmallLeaves, y \in SmallLeaves}

InnerValues ==
    { JArray(<<>>), JArray(<<JInt(1)>>), JArray(<<JString(<<"SOH">>), JInt(1)>>),
      JObject(EmptyMap), JObject(<<"a">> :> JInt(1)),
      JObject(<<"a">> :> JArray(<<JBool(TRUE)>>)) }

NestedValues ==
    {JArray(<<c>>) : c \in InnerValues}
        \cup {JArray(<<c, JInt(10)>>) : c \in InnerValues}
        \cup {JArray(<<JInt(10), c>>) : c \in InnerValues}
        \cup {JObject(<<"a">> :> c) : c \in InnerValues}
        \cup {JObject((<<"a">> :> c) @@ (<<"b">> :> JInt(10))) : c \in InnerValues}

DumpValues == DumpLeaves \cup FlatArrays \cup FlatObjects \cup NestedValues

InitDump ==
    /\ gv = JNull /\ gres = NoResult /\ HeapIdle
    /\ ParserIdle
    /\ src \in DumpValues
    /\ indent \in Indents

\* JSONParser::parse(src.dump(indent))
Dump ==
    /\ status = "idle"
    /\ data' = dump(src, indent)
    /\ pos' = 0 /\ line' = 1 /\ col' = 1
    /\ stk' = <<[fn |-> "parse", pc |-> "start"]>> /\ ret' = NoValue
    /\ status' = "run" /\ result' = NoValue /\ err' = NoError
    /\ consumed' = <<>> /\ oob' = FALSE /\ closers' = {} /\ expSeen' = FALSE
    /\ UNCHANGED <<edit, nonParseVars>>

NextDump ==
    \/ Dump
    \/ ParseStart \/ ParseCallValue \/ ParseReturn \/ SkipWhitespace
    \/ ParseValueStart \/ ParseValueDispatch
    \/ ParseObjectEnter \/ ParseObjectLoop \/ ParseObjectKey \/ ParseObjectColon
    \/ ParseObjectStore \/ ParseObjectComma
    \/ ParseArrayEnter \/ ParseArrayLoop \/ ParseArrayPush \/ ParseArrayComma
    \/ ParseStringEnter \/ ParseStringLoop \/ ParseStringEscape
    \/ ParseBoolean \/ ParseNull
    \/ ParseNumberSign \/ ParseNumberDigits \/ ParseNumberFraction

SpecDump == InitDump /\ [][NextDump]_vars

RECURSIVE NeedsUEscape(_)
\* some string or key of v holds a byte that dumpString writes as \u....
NeedsUEscape(v) ==
    LET plain(t) == \A i \in 1..Len(t) :
                        IsControl(t[i]) => t[i] \in {"BS", "FF", "LF", "CR", "TAB"}
    IN  CASE getType(v) = "String" -> ~plain(v.string)
          [] getType(v) = "Array" -> \E i \in 1..Len(v.array) : NeedsUEscape(v.array[i])
          [] getType(v) = "Object" ->
                \E k \in DOMAIN v.object : ~plain(k) \/ NeedsUEscape(v.object[k])
          [] OTHER -> FALSE

Dumped == src # NoValue /\ status # "idle"

\* C2: for a Value whose rendering needs no exponent and no \u escape, and
\* for every indent, parse(dump(v)) succeeds and yields a Value equal to v at
\* every node, tags included (a Double comes back as a Double).
C2_RoundTrip ==
    Dumped /\ Ended /\ ~NeedsUEscape(src) => status = "ok" /\ result = src

EndsWith(t, suffix) ==
    /\ Len(t) >= Len(suffix)
    /\ SubSeq(t, Len(t) - Len(suffix) + 1, Len(t)) = suffix

LastElement == src.array[Len(src.array)]
LastMember == LET keys == SortedKeys(DOMAIN src.object) IN src.object[keys[Len(keys)]]

FlatArrayEndingInInteger ==
    /\ Dumped /\ getType(src) = "Array" /\ src.array # <<>>
    /\ \A i \in 1..Len(src.array) : getType(src.array[i]) \notin {"Array", "Object"}
    /\ getType(LastElement) = "Integer"

CompactObjectEndingInInteger ==
    /\ Dumped /\ getType(src) = "Object" /\ DOMAIN src.object # {} /\ indent <= 0
    /\ getType(LastMember) = "Integer"

\* C9: an Integer node is written in decimal whatever was written before it
\* in the same dump: the text of an array (an object) whose last element
\* (member) is the Integer i ends with the decimal digits of i and the
\* closing bracket, also after a \u escape has been written.
C9_IntegerInDecimal ==
    /\ FlatArrayEndingInInteger =>
          EndsWith(data, (IF Len(src.array) = 1 THEN <<"[">> ELSE <<",", " ">>)
                         \o Decimal(LastElement.integer) \o <<"]">>)
    /\ CompactObjectEndingInInteger =>
          EndsWith(data, <<":">> \o Decimal(LastMember.integer) \o <<"}">>)

(***************************************************************************)
(* Value specification: two variables JSON a, b and a reference cur that   *)
(* the caller got from operator[]; the caller assigns native values and    *)
(* lists, indexes by key and by position, and copy-assigns any of the      *)
(* three to any other.                                                     *)
(***************************************************************************)
Now == Mem(slots, pay)

Refs == {SlotA, SlotB, cur}

Natives ==
    { JBool(TRUE), JInt(1), JInt(5), JDouble(Dbl(5, 1)), JString(<<"s">>) }

Lists == { <<>>, <<1, 5>> }

GarbageSlots ==
    { [NullSlot EXCEPT !.type = t, !.uk = t, !.scalar = x] :
        t \in {"Null", "Integer"}, x \in {0, 1} }

InitHeap ==
    /\ gv = JNull /\ gres = NoResult /\ DumpIdle /\ ParserIdle
    /\ slots = [s \in Slots |-> IF s \in Roots THEN NullSlot ELSE FreeSlot]
    /\ pay = [p \in Payloads |-> FreePayload]
    /\ cur = SlotA /\ ub = "none" /\ last = NoCall
    /\ chain = [fresh |-> TRUE, keys |-> <<>>]
    /\ calls = 0

CanCall == ub = "none" /\ slots[cur].st = "live" /\ calls < MaxCalls

\* the memory H that the call leaves, or what an undefined call leaves of it
Commit(H, this, ref, call, ch) ==
    /\ ~H.oom
    /\ pay' = H.pay
    /\ ub' = H.ub
    /\ IF H.ub = "none"
       THEN /\ slots' = H.slots
            /\ cur' = IF H.slots[ref].st = "live" THEN ref ELSE SlotA
       ELSE /\ \E g \in GarbageSlots : slots' = [H.slots EXCEPT ![this] = g]
            /\ cur' = SlotA
    /\ last' = call
    /\ chain' = ch
    /\ calls' = calls + 1
    /\ UNCHANGED <<gv, gres, dumpVars, parseVars>>

\* the payload of JSON(v) for a native v, installed in slot s
install(H, s, v) ==
    IF Stopped(H) THEN H
    ELSE IF getType(v) = "String"
    THEN IF FreePayloads(H) = {} THEN [H EXCEPT !.oom = TRUE]
         ELSE LET p == Least(FreePayloads(H))
              IN  [H EXCEPT !.pay[p] = [FreePayload EXCEPT !.st = "live", !.str = v.string],
                            !.slots[s] = [NullSlot EXCEPT !.type = "String", !.uk = "String",
                                                          !.ptr = p]]
    ELSE [H EXCEPT !.slots[s] =
            [NullSlot EXCEPT !.type = getType(v), !.uk = getType(v),
                             !.scalar = CASE getType(v) = "Boolean" -> v.boolean
                                          [] getType(v) = "Integer" -> v.integer
                                          [] getType(v) = "Double" -> v.doubleVal]]

\* operator=(bool), (int), (double), (const char*): clear(); type = ...; payload = ...
assignNative(H, this, v) == install(clear(H, this), this, v)

RECURSIVE fill(_, _, _, _)
\* the elements of new std::vector<JSON>(list) for a list of int
fill(H, p, list, i) ==
    IF i > Len(list) \/ Stopped(H) THEN H
    ELSE IF FreeSlots(H) = {} THEN [H EXCEPT !.oom = TRUE]
    ELSE LET s == Least(FreeSlots(H))
             H1 == install(H, s, JInt(list[i]))
         IN  fill([H1 EXCEPT !.pay[p].array = Append(@, s)], p, list, i + 1)

\* operator=(std::initializer_list<JSON>): clear(); type = Array; array = new vector(list)
assignList(H, this, list) ==
    LET H1 == clear(H, this)
    IN  IF Stopped(H1) THEN H1
        ELSE IF FreePayloads(H1) = {} THEN [H1 EXCEPT !.oom = TRUE]
        ELSE LET p == Least(FreePayloads(H1))
                 H2 == fill([H1 EXCEPT !.pay[p] = [FreePayload EXCEPT !.st = "live"]],
                            p, list, 1)
             IN  IF Stopped(H2) THEN H2
                 ELSE [H2 EXCEPT !.slots[this] =
                         [NullSlot EXCEPT !.type = "Array", !.uk = "Array", !.ptr = p]]

indexOverwrites(H, this, key) ==
    LET v == H.slots[this]
        p == IF v.type = "Null" THEN Least(FreePayloads(H)) ELSE v.ptr
        s == Least(FreeSlots(H))
    IN  IF v.type \notin {"Null", "Object"} THEN [H EXCEPT !.ub = "thrown"]
        ELSE IF FreeSlots(H) = {} \/ (v.type = "Null" /\ FreePayloads(H) = {})
        THEN [H EXCEPT !.oom = TRUE]
        ELSE [H EXCEPT !.pay[p] = IF v.type = "Null"
                                  THEN [FreePayload EXCEPT !.st = "live", !.object[key] = s]
                                  ELSE [@ EXCEPT !.object[key] = s],
                       !.slots[s] = NullSlot,
                       !.slots[this] = [NullSlot EXCEPT !.type = "Object", !.uk = "Object",
                                                     !.ptr = p]]

\* JSON& operator[](const std::string& key): the memory afterwards; "thrown"
\* stands for the std::runtime_error
index(H, this, key) ==
    LET v == H.slots[this]
    IN  IF v.type # "Object" /\ v.type # "Null" THEN [H EXCEPT !.ub = "thrown"]
        ELSE LET fresh == v.type = "Null"
                 H1 == IF ~fresh THEN H
                       ELSE IF FreePayloads(H) = {} THEN [H EXCEPT !.oom = TRUE]
                       ELSE LET p == Least(FreePayloads(H))
                            IN  [H EXCEPT !.pay[p] = [FreePayload EXCEPT !.st = "live"],
                                          !.slots[this] =
                                              [NullSlot EXCEPT !.type = "Object",
                                                               !.uk = "Object", !.ptr = p]]
             IN  IF Stopped(H1) THEN H1
                 ELSE LET q == H1.slots[this].ptr
                      IN  IF H1.pay[q].object[key] # 0 THEN H1
                          ELSE IF FreeSlots(H1) = {} THEN [H1 EXCEPT !.oom = TRUE]
                          ELSE LET s == Least(FreeSlots(H1))
                               IN  [H1 EXCEPT !.slots[s] = NullSlot,
                                              !.pay[q].object[key] = s]

\* the object operator[](key) returns a reference to
member(H, this, key) == H.pay[H.slots[this].ptr].object[key]

AssignNative ==
    /\ CanCall
    /\ \E this \in Refs, v \in Natives :
          Commit(assignNative(Now, this, v), this, cur,
                 [op |-> "assign", this |-> this, value |-> v, keys |-> chain.keys,
                  chained |-> (chain.fresh /\ this = cur)],
                 NoChain)

AssignList ==
    /\ CanCall
    /\ \E this \in Refs, list \in Lists :
          Commit(assignList(Now, this, list), this, cur,
                 [op |-> "list", this |-> this], NoChain)

\* a = JSON(); and the caller refers to a again
Fresh ==
    /\ CanCall
    /\ Commit(clear(Now, SlotA), SlotA, SlotA, [op |-> "fresh", this |-> SlotA],
              [fresh |-> TRUE, keys |-> <<>>])

Index ==
    /\ CanCall
    /\ \E this \in Refs, key \in HeapKeys :
          LET H == index(Now, this, key)
              call == [op |-> "index", this |-> this, key |-> key,
                       before |-> Tree(Now, this), thrown |-> (H.ub = "thrown")]
          IN  IF H.ub = "thrown"
              THEN Commit(Now, this, cur, call, NoChain)
              ELSE Commit(H, this, IF H.oom THEN cur ELSE member(H, this, key), call,
                          IF chain.fresh /\ this = cur
                          THEN [chain EXCEPT !.keys = Append(@, key)]
                          ELSE NoChain)

\* JSON& operator[](size_t index)
AtIndex ==
    /\ CanCall
    /\ \E this \in Refs, i \in 0..2 :
          LET v == slots[this]
              thrown == v.type # "Array" \/ i >= Len(pay[v.ptr].array)
          IN  Commit(Now, this, IF thrown THEN cur ELSE pay[v.ptr].array[i + 1],
                     [op |-> "at", this |-> this, thrown |-> thrown], NoChain)

CopyAssign ==
    /\ CanCall
    /\ \E this \in Refs, other \in Refs :
          Commit(copyAssign(Now, this, other), this, cur,
                 [op |-> "copy", this |-> this, other |-> other,
                  before |-> Tree(Now, other)],
                 NoChain)

NextHeap == AssignNative \/ AssignList \/ Fresh \/ Index \/ AtIndex \/ CopyAssign

SpecHeap == InitHeap /\ [][NextHeap]_vars

(***************************************************************************)
(* Claims about the value in memory                                        *)
(***************************************************************************)
HeapTyped(s) == slots[s].st = "live" /\ slots[s].type \in HeapTypes
Inside(p) == Elements(pay[p].array) \cup Members(pay[p].object)

\* every live Value that has a payload owns a live one, alone; every live
\* payload has an owner; every element or member lives in one live payload
ExclusiveOwnership ==
    /\ \A s \in Slots : HeapTyped(s) =>
          /\ slots[s].uk = slots[s].type
          /\ slots[s].ptr \in Payloads
          /\ pay[slots[s].ptr].st = "live"
    /\ \A p \in Payloads : pay[p].st = "live" =>
          /\ Cardinality({s \in Slots : HeapTyped(s) /\ slots[s].ptr = p}) = 1
          /\ \A s \in Inside(p) : slots[s].st = "live"
    /\ \A s \in Slots \ Roots : slots[s].st = "live" =>
          Cardinality({p \in Payloads : pay[p].st = "live" /\ s \in Inside(p)}) = 1

\* C3: after a = b, for any two Values a and b (b may be a itself or an
\* element or member nested in a), a holds what b held before, every payload
\* has exactly one owner, and no released payload or destroyed Value was
\* read and none released twice while the assignment ran.
C3_CopyAssign ==
    last.op = "copy" =>
        /\ ub = "none"
        /\ Tree(Now, last.this) = last.before
        /\ ExclusiveOwnership

RECURSIVE Nest(_, _)
\* {k1:{...{kn:x}}}
Nest(keys, x) ==
    IF keys = <<>> THEN x ELSE JObject(Head(keys) :> Nest(Tail(keys), x))

\* C4: v[key] turns a Null v into the Object {key: null}; leaves the members
\* of an Object v as they are and adds key with a Null value only when it is
\* absent; on every other tag it throws and leaves v as it was.  The
\* reference returned is the member.  A chain of keyed accesses k1..kn from
\* a Null Value followed by an assignment of x yields {k1:{...{kn:x}}}.
C4_KeyedAccess ==
    /\ last.op = "index" =>
          LET now == Tree(Now, last.this)
              before == last.before
          IN  /\ getType(before) = "Null" =>
                    ~last.thrown /\ now = JObject(last.key :> JNull)
              /\ getType(before) = "Object" =>
                    /\ ~last.thrown
                    /\ now = JObject(IF last.key \in DOMAIN before.object
                                     THEN before.object
                                     ELSE MapPut(before.object, last.key, JNull))
              /\ getType(before) \notin {"Null", "Object"} =>
                    last.thrown /\ now = before
              /\ ~last.thrown => cur = member(Now, last.this, last.key)
              /\ ExclusiveOwnership
    /\ last.op = "assign" /\ last.chained =>
          Tree(Now, SlotA) = Nest(last.keys, last.value)

\* JSON()["a"]["b"] = 5 has been run: a is {"a":{"b":5}}
C4_Witness ==
    /\ last.op = "assign" /\ last.chained
    /\ last.keys = <<(<<"a">>), (<<"b">>)>>
    /\ Tree(Now, SlotA) = JObject(<<"a">> :> JObject(<<"b">> :> JInt(5)))

====
